---- MODULE Spec2Model ----
(***************************************************************************)
(* PebbleRun watch application: the AppMessage channel (appmsg.c), the     *)
(* heart-rate monitor (hr.c), the session state kept in g_app_state        *)
(* (common.h, main.c) and the window operations that write it (ui.c).      *)
(*                                                                         *)
(* Every C function is an operator from a world record to a world record;  *)
(* an action of the specification is one callback delivered by the Pebble  *)
(* event loop, run to completion.  The record carries a trace of the       *)
(* calls the handler made into the platform (logging, window stack,        *)
(* layers, health service, AppMessage outbox), each with a snapshot of     *)
(* g_app_state, s_hr_monitoring and the outbox taken at the moment of the  *)
(* call.                                                                   *)
(***************************************************************************)
EXTENDS Integers, Sequences, FiniteSets, TLC

(***************************************************************************)
(* Bounds of the model.                                                    *)
(***************************************************************************)
\* Longest PACE / TIME string the peer delivers.
MaxInLen == 17

(***************************************************************************)
(* common.h                                                                *)
(***************************************************************************)
KEY_PACE == 0
KEY_TIME == 1
KEY_HR == 2
KEY_CMD == 3
\* A key outside the enum.
KEY_UNKNOWN == KEY_CMD + 6

CMD_START == 1
CMD_STOP == 2

\* sizeof(g_app_state.pace_text), sizeof(g_app_state.time_text)
TEXT_SIZE == 16

(***************************************************************************)
(* C strings.  A character is a one-character string, the terminator is    *)
(* NUL; a char[16] is a sequence of 16 of them.                            *)
(***************************************************************************)
NUL == "NUL"

Digits == <<"0", "1", "2", "3", "4", "5", "6", "7", "8", "9">>

\* A string of n characters without terminator.
Str(n) == [i \in 1..n |-> Digits[((i - 1) % 10) + 1]]

Pace530 == <<"5", ":", "3", "0", "/", "k", "m">>
Time1234 == <<"0", "0", ":", "1", "2", ":", "3", "4">>
DefaultPace == <<"-", "-", ":", "-", "-", "/", "k", "m">>
DefaultTime == <<"0", "0", ":", "0", "0", ":", "0", "0">>

\* A char[TEXT_SIZE] initialised from a string literal: the rest is zeroed.
CharArray(s) == [i \in 1..TEXT_SIZE |-> IF i <= Len(s) THEN s[i] ELSE NUL]

MinOf(S) == CHOOSE m \in S : \A x \in S : m <= x

\* The C string a buffer holds: the characters before the first NUL.
CString(buf) ==
    LET nuls == {i \in 1..Len(buf) : buf[i] = NUL}
    IN  IF nuls = {} THEN buf ELSE SubSeq(buf, 1, MinOf(nuls) - 1)

\* strncpy(dst, src, n): n bytes are written, the characters of src and then
\* NUL padding; no terminator is written when src has n characters or more.
strncpy(dst, src, n) ==
    [i \in 1..Len(dst) |->
        IF i <= n THEN (IF i <= Len(src) THEN src[i] ELSE NUL) ELSE dst[i]]

(***************************************************************************)
(* The world the handlers act on.                                          *)
(***************************************************************************)
VARIABLES
    g_app_state,      \* main.c: AppState g_app_state
    s_hr_monitoring,  \* hr.c: static bool s_hr_monitoring
    s_main_window,    \* ui.c: "NULL" or "window"
    s_canvas_layer,   \* ui.c: "NULL", "valid" or "dangling" (destroyed, not cleared)
    window_stack,     \* platform: TRUE when s_main_window is on the window stack
    sample_period,    \* platform: heart-rate sample period in force (0 = default)
    hr_subscribed,    \* platform: hr_event_handler is subscribed
    am_open,          \* platform: app_message_open succeeded
    am_callbacks,     \* platform: the four AppMessage callbacks are registered
    outbox,           \* platform: HR values handed to the transport, not yet completed
    open_calls,       \* number of calls of app_message_open
    pc,               \* main.c: "start", "loop", "exited", or "crashed"
    trace,            \* platform calls made by the last handler, in order
    last_event        \* the callback that ran last, with its inputs

vars == <<g_app_state, s_hr_monitoring, s_main_window, s_canvas_layer,
          window_stack, sample_period, hr_subscribed, am_open, am_callbacks,
          outbox, open_calls, pc, trace, last_event>>

World ==
    [g |-> g_app_state, mon |-> s_hr_monitoring, win |-> s_main_window,
     canvas |-> s_canvas_layer, stack |-> window_stack,
     period |-> sample_period, sub |-> hr_subscribed, open |-> am_open,
     cb |-> am_callbacks, outbox |-> outbox, opens |-> open_calls,
     crashed |-> FALSE, trace |-> <<>>]

\* The argument recorded for a call that takes no integer.
NoArg == 0 - 1

\* One call into the platform made by function fn, with the session state,
\* the monitor flag and the outbox as they are when the call is made.
Effect(w, fn, op, level, msg, n) ==
    IF w.crashed THEN w
    ELSE [w EXCEPT !.trace = Append(@,
            [fn |-> fn, op |-> op, level |-> level, msg |-> msg, n |-> n,
             g |-> w.g, mon |-> w.mon, outbox |-> w.outbox])]

APP_LOG(w, fn, level, msg) == Effect(w, fn, "APP_LOG", level, msg, NoArg)

\* Outcomes of a call on a destroyed layer (undefined behaviour): the freed
\* block is still readable and nothing visible happens, or the app faults.
UBOutcomes == {"benign", "fault"}

layer_mark_dirty(w, fn, ub) ==
    IF w.crashed THEN w
    ELSE IF w.canvas = "valid"
         THEN Effect(w, fn, "layer_mark_dirty", "", "", NoArg)
         ELSE IF ub = "fault"
              THEN [Effect(w, fn, "fault", "", "use of destroyed layer", NoArg)
                        EXCEPT !.crashed = TRUE]
              ELSE Effect(w, fn, "layer_mark_dirty_destroyed", "", "", NoArg)

(***************************************************************************)
(* ui.c                                                                    *)
(***************************************************************************)
\* window_create() returns "window" or, without memory, "NULL".
ui_init(w, created) ==
    APP_LOG([w EXCEPT !.win = created], "ui_init", "INFO", "UI initialized")

\* window_destroy() unloads a loaded window: main_window_unload destroys the
\* canvas layer and leaves s_canvas_layer pointing at it.
ui_deinit(w) ==
    IF w.crashed THEN w
    ELSE IF w.win # "NULL"
         THEN LET w1 == Effect(w, "ui_deinit", "window_destroy", "", "", NoArg)
              IN  [w1 EXCEPT !.stack = FALSE,
                             !.canvas = IF w.stack THEN "dangling" ELSE @]
         ELSE w

ui_update_hr(w, hr, ub) ==
    IF w.crashed THEN w
    ELSE LET w1 == [w EXCEPT !.g.current_hr = hr]
         IN  IF w1.canvas # "NULL"
             THEN layer_mark_dirty(w1, "ui_update_hr", ub)
             ELSE w1

\* ui_update_pace copying sizeof(pace_text) bytes and writing no terminator.
ui_update_pace_unterminated(w, pace, ub) ==
    IF w.crashed THEN w
    ELSE LET b1 == strncpy(w.g.pace_text, pace, TEXT_SIZE)
             w1 == [w EXCEPT !.g.pace_text = b1]
         IN  IF w1.canvas # "NULL"
             THEN layer_mark_dirty(w1, "ui_update_pace", ub)
             ELSE w1

\* pace is tuple->value->cstring, the address of the payload: never NULL.
ui_update_pace(w, pace, ub) ==
    IF w.crashed THEN w
    ELSE LET b1 == strncpy(w.g.pace_text, pace, TEXT_SIZE - 1)
             b2 == [b1 EXCEPT ![TEXT_SIZE] = NUL]
             w1 == [w EXCEPT !.g.pace_text = b2]
         IN  IF w1.canvas # "NULL"
             THEN layer_mark_dirty(w1, "ui_update_pace", ub)
             ELSE w1

ui_update_time(w, time, ub) ==
    IF w.crashed THEN w
    ELSE LET b1 == strncpy(w.g.time_text, time, TEXT_SIZE - 1)
             b2 == [b1 EXCEPT ![TEXT_SIZE] = NUL]
             w1 == [w EXCEPT !.g.time_text = b2]
         IN  IF w1.canvas # "NULL"
             THEN layer_mark_dirty(w1, "ui_update_time", ub)
             ELSE w1

\* window_stack_push() loads a window that is not loaded: main_window_load
\* creates the canvas layer.
ui_show_window(w, ub) ==
    IF w.crashed THEN w
    ELSE IF w.win # "NULL"
         THEN LET w1 == Effect(w, "ui_show_window", "window_stack_push", "", "", NoArg)
                  w2 == [w1 EXCEPT !.stack = TRUE,
                                   !.canvas = IF w.stack THEN @ ELSE "valid"]
                  w3 == [w2 EXCEPT !.g.is_active = TRUE]
              IN  IF w3.canvas # "NULL"
                  THEN layer_mark_dirty(w3, "ui_show_window", ub)
                  ELSE w3
         ELSE w

\* window_stack_remove() unloads the window when it was on the stack.
ui_hide_window(w) ==
    IF w.crashed THEN w
    ELSE IF w.win # "NULL"
         THEN LET w1 == Effect(w, "ui_hide_window", "window_stack_remove", "", "", NoArg)
                  w2 == [w1 EXCEPT !.stack = FALSE,
                                   !.canvas = IF w.stack THEN "dangling" ELSE @]
              IN  [w2 EXCEPT !.g.is_active = FALSE]
         ELSE w

window_stack_pop_all(w, fn) ==
    IF w.crashed THEN w
    ELSE LET w1 == Effect(w, fn, "window_stack_pop_all", "", "", NoArg)
         IN  [w1 EXCEPT !.stack = FALSE,
                        !.canvas = IF w.stack THEN "dangling" ELSE @]

(***************************************************************************)
(* appmsg.c: outbound                                                      *)
(***************************************************************************)
\* app_message_outbox_begin(): the outbox takes one message at a time.
app_message_outbox_begin(w) ==
    IF ~w.open THEN "APP_MSG_CLOSED"
    ELSE IF w.outbox # <<>> THEN "APP_MSG_BUSY"
    ELSE "APP_MSG_OK"

\* appmsg_send_hr going on to write and send whatever
\* app_message_outbox_begin returned.
appmsg_send_hr_unchecked(w, hr_bpm, wr, sr) ==
    IF w.crashed THEN w
    ELSE
    LET result == app_message_outbox_begin(w)
        w1 == Effect(w, "appmsg_send_hr", "app_message_outbox_begin", "", result, NoArg)
        w2 == Effect(w1, "appmsg_send_hr", "dict_write_uint16", "", wr, hr_bpm)
    IN  IF wr = "DICT_OK"
        THEN LET w3 == Effect(w2, "appmsg_send_hr", "app_message_outbox_send", "", sr, hr_bpm)
             IN  IF sr = "APP_MSG_OK"
                 THEN [w3 EXCEPT !.outbox = Append(@, hr_bpm)]
                 ELSE APP_LOG(w3, "appmsg_send_hr", "ERROR", "Failed to send HR message")
        ELSE APP_LOG(w2, "appmsg_send_hr", "ERROR", "Failed to write HR to dictionary")

\* appmsg_send_hr beginning the message a second time when the outbox
\* refused it.
appmsg_send_hr_retry(w, hr_bpm, wr, sr) ==
    IF w.crashed THEN w
    ELSE
    LET result == app_message_outbox_begin(w)
        w1 == Effect(w, "appmsg_send_hr", "app_message_outbox_begin", "", result, NoArg)
    IN  IF result = "APP_MSG_OK"
        THEN LET w2 == Effect(w1, "appmsg_send_hr", "dict_write_uint16", "", wr, hr_bpm)
             IN  IF wr = "DICT_OK"
                 THEN LET w3 == Effect(w2, "appmsg_send_hr", "app_message_outbox_send", "", sr, hr_bpm)
                          w4 == IF sr = "APP_MSG_OK"
                                THEN [w3 EXCEPT !.outbox = Append(@, hr_bpm)]
                                ELSE w3
                      IN  IF sr # "APP_MSG_OK"
                          THEN APP_LOG(w4, "appmsg_send_hr", "ERROR", "Failed to send HR message")
                          ELSE w4
                 ELSE APP_LOG(w2, "appmsg_send_hr", "ERROR", "Failed to write HR to dictionary")
        ELSE APP_LOG(
                Effect(w1, "appmsg_send_hr", "app_message_outbox_begin", "",
                       app_message_outbox_begin(w1), NoArg),
                "appmsg_send_hr", "ERROR", "Failed to begin outbox")

appmsg_send_hr(w, hr_bpm, wr, sr) ==
    IF w.crashed THEN w
    ELSE
    LET result == app_message_outbox_begin(w)
        w1 == Effect(w, "appmsg_send_hr", "app_message_outbox_begin", "", result, NoArg)
    IN  IF result = "APP_MSG_OK"
        THEN LET w2 == Effect(w1, "appmsg_send_hr", "dict_write_uint16", "", wr, hr_bpm)
             IN  IF wr = "DICT_OK"
                 THEN LET w3 == Effect(w2, "appmsg_send_hr", "app_message_outbox_send", "", sr, hr_bpm)
                          w4 == IF sr = "APP_MSG_OK"
                                THEN [w3 EXCEPT !.outbox = Append(@, hr_bpm)]
                                ELSE w3
                      IN  IF sr # "APP_MSG_OK"
                          THEN APP_LOG(w4, "appmsg_send_hr", "ERROR", "Failed to send HR message")
                          ELSE w4
                 ELSE APP_LOG(w2, "appmsg_send_hr", "ERROR", "Failed to write HR to dictionary")
        ELSE APP_LOG(w1, "appmsg_send_hr", "ERROR", "Failed to begin outbox")

(***************************************************************************)
(* hr.c                                                                    *)
(***************************************************************************)
HealthValueInvalid == -1

\* health_service_set_heart_rate_sample_period(): takes effect when it
\* returns true.
health_service_set_heart_rate_sample_period(w, fn, period, ok) ==
    LET w1 == Effect(w, fn, "health_service_set_heart_rate_sample_period",
                     "", IF ok THEN "true" ELSE "false", period)
    IN  IF ok THEN [w1 EXCEPT !.period = period] ELSE w1

\* hr_event_handler sending the reading as peeked, not as stored.
hr_event_handler_raw(w, event, hr_value, wr, sr, ub) ==
    IF event = "HealthEventHeartRateUpdate"
    THEN IF hr_value # HealthValueInvalid
         THEN LET hr_bpm == hr_value % 65536
                  w1 == ui_update_hr(w, hr_bpm, ub)
                  w2 == appmsg_send_hr(w1, hr_value, wr, sr)
              IN  APP_LOG(w2, "hr_event_handler", "INFO", "HR: %d BPM")
         ELSE APP_LOG(w, "hr_event_handler", "WARNING", "Invalid HR reading")
    ELSE w

hr_event_handler(w, event, hr_value, wr, sr, ub) ==
    IF event = "HealthEventHeartRateUpdate"
    THEN IF hr_value # HealthValueInvalid
         THEN LET hr_bpm == hr_value % 65536
                  w1 == ui_update_hr(w, hr_bpm, ub)
                  w2 == appmsg_send_hr(w1, hr_bpm, wr, sr)
              IN  APP_LOG(w2, "hr_event_handler", "INFO", "HR: %d BPM")
         ELSE APP_LOG(w, "hr_event_handler", "WARNING", "Invalid HR reading")
    ELSE w

hr_init(w, subscribed) ==
    IF ~subscribed
    THEN APP_LOG(w, "hr_init", "ERROR", "Failed to subscribe to health events")
    ELSE APP_LOG([w EXCEPT !.sub = TRUE], "hr_init", "INFO", "HR monitoring initialized")

\* hr_start_monitoring configuring the sensor again when it is Sampling.
hr_start_monitoring_restart(w, ok) ==
    IF w.crashed THEN w
    ELSE LET w1 == health_service_set_heart_rate_sample_period(
                       w, "hr_start_monitoring", 1, ok)
         IN  IF ok
             THEN APP_LOG([w1 EXCEPT !.mon = TRUE], "hr_start_monitoring",
                          "INFO", "HR monitoring started (1s interval)")
             ELSE APP_LOG([w1 EXCEPT !.mon = FALSE], "hr_start_monitoring", "ERROR",
                          "Failed to set HR sample period")

\* hr_start_monitoring that does not look at the result of the request.
hr_start_monitoring_unchecked(w, ok) ==
    IF w.crashed THEN w
    ELSE IF w.mon
         THEN APP_LOG(w, "hr_start_monitoring", "WARNING", "HR monitoring already active")
         ELSE LET w1 == health_service_set_heart_rate_sample_period(
                            w, "hr_start_monitoring", 1, ok)
              IN  APP_LOG([w1 EXCEPT !.mon = TRUE], "hr_start_monitoring",
                          "INFO", "HR monitoring started (1s interval)")

hr_start_monitoring(w, ok) ==
    IF w.crashed THEN w
    ELSE IF w.mon
         THEN APP_LOG(w, "hr_start_monitoring", "WARNING", "HR monitoring already active")
         ELSE LET w1 == health_service_set_heart_rate_sample_period(
                            w, "hr_start_monitoring", 1, ok)
              IN  IF ok
                  THEN APP_LOG([w1 EXCEPT !.mon = TRUE], "hr_start_monitoring",
                               "INFO", "HR monitoring started (1s interval)")
                  ELSE APP_LOG(w1, "hr_start_monitoring", "ERROR",
                               "Failed to set HR sample period")

\* hr_stop_monitoring leaving the monitor Sampling when the request fails.
hr_stop_monitoring_checked(w, ok, ub) ==
    IF w.crashed THEN w
    ELSE IF ~w.mon
         THEN APP_LOG(w, "hr_stop_monitoring", "WARNING", "HR monitoring not active")
         ELSE LET w1 == health_service_set_heart_rate_sample_period(
                            w, "hr_stop_monitoring", 0, ok)
              IN  IF ok
                  THEN LET w2 == [w1 EXCEPT !.mon = FALSE]
                           w3 == ui_update_hr(w2, 0, ub)
                       IN  APP_LOG(w3, "hr_stop_monitoring", "INFO", "HR monitoring stopped")
                  ELSE APP_LOG(w1, "hr_stop_monitoring", "ERROR",
                               "Failed to set HR sample period")

\* hr_stop_monitoring that does not clear the displayed heart rate.
hr_stop_monitoring_noclear(w, ok, ub) ==
    IF w.crashed THEN w
    ELSE IF ~w.mon
         THEN APP_LOG(w, "hr_stop_monitoring", "WARNING", "HR monitoring not active")
         ELSE LET w1 == health_service_set_heart_rate_sample_period(
                            w, "hr_stop_monitoring", 0, ok)
                  w2 == [w1 EXCEPT !.mon = FALSE]
              IN  APP_LOG(w2, "hr_stop_monitoring", "INFO", "HR monitoring stopped")

\* hr_stop_monitoring without its early return.
hr_stop_monitoring_unguarded(w, ok, ub) ==
    IF w.crashed THEN w
    ELSE LET w1 == health_service_set_heart_rate_sample_period(
                       w, "hr_stop_monitoring", 0, ok)
             w2 == [w1 EXCEPT !.mon = FALSE]
             w3 == ui_update_hr(w2, 0, ub)
         IN  APP_LOG(w3, "hr_stop_monitoring", "INFO", "HR monitoring stopped")

hr_stop_monitoring(w, ok, ub) ==
    IF w.crashed THEN w
    ELSE IF ~w.mon
         THEN APP_LOG(w, "hr_stop_monitoring", "WARNING", "HR monitoring not active")
         ELSE LET w1 == health_service_set_heart_rate_sample_period(
                            w, "hr_stop_monitoring", 0, ok)
                  w2 == [w1 EXCEPT !.mon = FALSE]
                  w3 == ui_update_hr(w2, 0, ub)
              IN  APP_LOG(w3, "hr_stop_monitoring", "INFO", "HR monitoring stopped")

\* hr_deinit that only unsubscribes.
hr_deinit_nostop(w, ok, ub) ==
    IF w.crashed THEN w
    ELSE LET w2 == Effect(w, "hr_deinit", "health_service_events_unsubscribe", "", "", NoArg)
         IN  APP_LOG(IF w2.crashed THEN w2 ELSE [w2 EXCEPT !.sub = FALSE],
                     "hr_deinit", "INFO", "HR monitoring deinitialized")

hr_deinit(w, ok, ub) ==
    IF w.crashed THEN w
    ELSE LET w1 == IF w.mon THEN hr_stop_monitoring(w, ok, ub) ELSE w
             w2 == Effect(w1, "hr_deinit", "health_service_events_unsubscribe", "", "", NoArg)
         IN  APP_LOG(IF w2.crashed THEN w2 ELSE [w2 EXCEPT !.sub = FALSE],
                     "hr_deinit", "INFO", "HR monitoring deinitialized")

(***************************************************************************)
(* appmsg.c: inbound                                                       *)
(***************************************************************************)
\* appmsg_handle_command that leaves the monitor alone on CMD_STOP.
appmsg_handle_command_keep_monitor(w, cmd, ok, ub) ==
    LET w0 == APP_LOG(w, "appmsg_handle_command", "INFO", "Received command: %d")
    IN  IF cmd = CMD_START
        THEN LET w1 == APP_LOG(w0, "appmsg_handle_command", "INFO", "Starting workout session")
                 w2 == ui_show_window(w1, ub)
             IN  hr_start_monitoring(w2, ok)
        ELSE IF cmd = CMD_STOP
        THEN LET w1 == APP_LOG(w0, "appmsg_handle_command", "INFO", "Stopping workout session")
                 w3 == ui_hide_window(w1)
             IN  window_stack_pop_all(w3, "appmsg_handle_command")
        ELSE APP_LOG(w0, "appmsg_handle_command", "WARNING", "Unknown command: %d")

\* appmsg_handle_command hiding the window before it stops the monitor.
appmsg_handle_command_hide_first(w, cmd, ok, ub) ==
    LET w0 == APP_LOG(w, "appmsg_handle_command", "INFO", "Received command: %d")
    IN  IF cmd = CMD_START
        THEN LET w1 == APP_LOG(w0, "appmsg_handle_command", "INFO", "Starting workout session")
                 w2 == ui_show_window(w1, ub)
             IN  hr_start_monitoring(w2, ok)
        ELSE IF cmd = CMD_STOP
        THEN LET w1 == APP_LOG(w0, "appmsg_handle_command", "INFO", "Stopping workout session")
                 w2 == ui_hide_window(w1)
                 w3 == hr_stop_monitoring(w2, ok, ub)
             IN  window_stack_pop_all(w3, "appmsg_handle_command")
        ELSE APP_LOG(w0, "appmsg_handle_command", "WARNING", "Unknown command: %d")

\* appmsg_handle_command whose default case reports and then runs into the
\* CMD_STOP case.
appmsg_handle_command_fallthrough(w, cmd, ok, ub) ==
    LET w0 == APP_LOG(w, "appmsg_handle_command", "INFO", "Received command: %d")
    IN  IF cmd = CMD_START
        THEN LET w1 == APP_LOG(w0, "appmsg_handle_command", "INFO", "Starting workout session")
                 w2 == ui_show_window(w1, ub)
             IN  hr_start_monitoring(w2, ok)
        ELSE LET wd == IF cmd = CMD_STOP THEN w0
                       ELSE APP_LOG(w0, "appmsg_handle_command", "WARNING", "Unknown command: %d")
                 w1 == APP_LOG(wd, "appmsg_handle_command", "INFO", "Stopping workout session")
                 w2 == hr_stop_monitoring(w1, ok, ub)
                 w3 == ui_hide_window(w2)
             IN  window_stack_pop_all(w3, "appmsg_handle_command")

appmsg_handle_command(w, cmd, ok, ub) ==
    LET w0 == APP_LOG(w, "appmsg_handle_command", "INFO", "Received command: %d")
    IN  IF cmd = CMD_START
        THEN LET w1 == APP_LOG(w0, "appmsg_handle_command", "INFO", "Starting workout session")
                 w2 == ui_show_window(w1, ub)
             IN  hr_start_monitoring(w2, ok)
        ELSE IF cmd = CMD_STOP
        THEN LET w1 == APP_LOG(w0, "appmsg_handle_command", "INFO", "Stopping workout session")
                 w2 == hr_stop_monitoring(w1, ok, ub)
                 w3 == ui_hide_window(w2)
             IN  window_stack_pop_all(w3, "appmsg_handle_command")
        ELSE APP_LOG(w0, "appmsg_handle_command", "WARNING", "Unknown command: %d")

\* appmsg_handle_pace_update taking the update in an Active session only.
appmsg_handle_pace_update_gated(w, pace, ub) ==
    LET w1 == APP_LOG(w, "appmsg_handle_pace_update", "DEBUG", "Pace update: %s")
    IN  IF w.g.is_active THEN ui_update_pace(w1, pace, ub) ELSE w1

appmsg_handle_pace_update(w, pace, ub) ==
    LET w1 == APP_LOG(w, "appmsg_handle_pace_update", "DEBUG", "Pace update: %s")
    IN  ui_update_pace(w1, pace, ub)

appmsg_handle_time_update(w, time, ub) ==
    LET w1 == APP_LOG(w, "appmsg_handle_time_update", "DEBUG", "Time update: %s")
    IN  ui_update_time(w1, time, ub)

\* A Tuple of a received dictionary: its type and its value.
CStringTuple(s) == [type |-> "TUPLE_CSTRING", value |-> s]
UInt8Tuple(n) == [type |-> "TUPLE_UINT8", value |-> n]
UInt16Tuple(n) == [type |-> "TUPLE_UINT16", value |-> n]
NoTuple == [type |-> "NULL", value |-> 0]

\* dict_find(): the tuple of key in the dictionary, or NULL.
dict_find(iterator, key) ==
    IF key \in DOMAIN iterator THEN iterator[key] ELSE NoTuple

\* inbox_received_callback reading value->uint8 of the CMD tuple without
\* looking at its type: the first byte of the payload.
inbox_received_callback_untyped(w, iterator, ok, ub) ==
    LET w0 == APP_LOG(w, "inbox_received_callback", "INFO", "AppMessage received")
        pace_tuple == dict_find(iterator, KEY_PACE)
        w1 == IF pace_tuple.type # "NULL" /\ pace_tuple.type = "TUPLE_CSTRING"
              THEN appmsg_handle_pace_update(w0, pace_tuple.value, ub)
              ELSE w0
        time_tuple == dict_find(iterator, KEY_TIME)
        w2 == IF w1.crashed THEN w1
              ELSE IF time_tuple.type # "NULL" /\ time_tuple.type = "TUPLE_CSTRING"
              THEN appmsg_handle_time_update(w1, time_tuple.value, ub)
              ELSE w1
        cmd_tuple == dict_find(iterator, KEY_CMD)
        uint8 == IF cmd_tuple.type = "TUPLE_CSTRING"
                 THEN (IF cmd_tuple.value = <<"1">> THEN 49 ELSE 50)
                 ELSE cmd_tuple.value % 256
    IN  IF w2.crashed THEN w2
        ELSE IF cmd_tuple.type # "NULL"
        THEN appmsg_handle_command(w2, uint8, ok, ub)
        ELSE w2

\* inbox_received_callback dispatching the command before the strings.
inbox_received_callback_cmd_first(w, iterator, ok, ub) ==
    LET w0 == APP_LOG(w, "inbox_received_callback", "INFO", "AppMessage received")
        cmd_tuple == dict_find(iterator, KEY_CMD)
        w1 == IF cmd_tuple.type # "NULL" /\ cmd_tuple.type = "TUPLE_UINT8"
              THEN appmsg_handle_command(w0, cmd_tuple.value, ok, ub)
              ELSE w0
        pace_tuple == dict_find(iterator, KEY_PACE)
        w2 == IF w1.crashed THEN w1
              ELSE IF pace_tuple.type # "NULL" /\ pace_tuple.type = "TUPLE_CSTRING"
              THEN appmsg_handle_pace_update(w1, pace_tuple.value, ub)
              ELSE w1
        time_tuple == dict_find(iterator, KEY_TIME)
    IN  IF w2.crashed THEN w2
        ELSE IF time_tuple.type # "NULL" /\ time_tuple.type = "TUPLE_CSTRING"
        THEN appmsg_handle_time_update(w2, time_tuple.value, ub)
        ELSE w2

inbox_received_callback(w, iterator, ok, ub) ==
    LET w0 == APP_LOG(w, "inbox_received_callback", "INFO", "AppMessage received")
        pace_tuple == dict_find(iterator, KEY_PACE)
        w1 == IF pace_tuple.type # "NULL" /\ pace_tuple.type = "TUPLE_CSTRING"
              THEN appmsg_handle_pace_update(w0, pace_tuple.value, ub)
              ELSE w0
        time_tuple == dict_find(iterator, KEY_TIME)
        w2 == IF w1.crashed THEN w1
              ELSE IF time_tuple.type # "NULL" /\ time_tuple.type = "TUPLE_CSTRING"
              THEN appmsg_handle_time_update(w1, time_tuple.value, ub)
              ELSE w1
        cmd_tuple == dict_find(iterator, KEY_CMD)
    IN  IF w2.crashed THEN w2
        ELSE IF cmd_tuple.type # "NULL" /\ cmd_tuple.type = "TUPLE_UINT8"
        THEN appmsg_handle_command(w2, cmd_tuple.value, ok, ub)
        ELSE w2

inbox_dropped_callback(w) ==
    APP_LOG(w, "inbox_dropped_callback", "ERROR", "AppMessage inbox dropped: %d")

outbox_sent_callback(w) ==
    APP_LOG(w, "outbox_sent_callback", "DEBUG", "AppMessage sent successfully")

outbox_failed_callback(w) ==
    APP_LOG(w, "outbox_failed_callback", "ERROR", "AppMessage send failed: %d")

\* appmsg_init opening the channel a second time when the first open
\* failed.
appmsg_init_retry(w, result) ==
    LET w1 == Effect([w EXCEPT !.cb = TRUE], "appmsg_init",
                     "app_message_register_callbacks", "", "", NoArg)
        w2 == Effect([w1 EXCEPT !.open = (result = "APP_MSG_OK"),
                                !.opens = @ + 1],
                     "appmsg_init", "app_message_open", "", result, NoArg)
    IN  IF result = "APP_MSG_OK"
        THEN APP_LOG(w2, "appmsg_init", "INFO", "AppMessage initialized successfully")
        ELSE APP_LOG(
                Effect([w2 EXCEPT !.open = TRUE, !.opens = @ + 1],
                       "appmsg_init", "app_message_open", "", "APP_MSG_OK", NoArg),
                "appmsg_init", "INFO", "AppMessage initialized successfully")

appmsg_init(w, result) ==
    LET w1 == Effect([w EXCEPT !.cb = TRUE], "appmsg_init",
                     "app_message_register_callbacks", "", "", NoArg)
        w2 == Effect([w1 EXCEPT !.open = (result = "APP_MSG_OK"),
                                !.opens = @ + 1],
                     "appmsg_init", "app_message_open", "", result, NoArg)
    IN  IF result = "APP_MSG_OK"
        THEN APP_LOG(w2, "appmsg_init", "INFO", "AppMessage initialized successfully")
        ELSE APP_LOG(w2, "appmsg_init", "ERROR", "AppMessage initialization failed: %d")

appmsg_deinit(w) ==
    LET w1 == Effect([w EXCEPT !.cb = FALSE], "appmsg_deinit",
                     "app_message_deregister_callbacks", "", "", NoArg)
    IN  APP_LOG(w1, "appmsg_deinit", "INFO", "AppMessage deinitialized")

(***************************************************************************)
(* main.c                                                                  *)
(***************************************************************************)
init(w, created, subscribed, result) ==
    LET w1 == ui_init(w, created)
        w2 == hr_init(w1, subscribed)
        w3 == appmsg_init(w2, result)
    IN  APP_LOG(w3, "init", "INFO", "PebbleRun initialized")

deinit(w, ok, ub) ==
    LET w1 == appmsg_deinit(w)
        w2 == hr_deinit(w1, ok, ub)
        w3 == ui_deinit(w2)
    IN  APP_LOG(w3, "deinit", "INFO", "PebbleRun deinitialized")

(***************************************************************************)
(* Inputs                                                                  *)
(***************************************************************************)
OpenResults == {"APP_MSG_OK", "APP_MSG_OUT_OF_MEMORY"}
WriteResults == {"DICT_OK", "DICT_NOT_ENOUGH_STORAGE"}
SendResults == {"APP_MSG_OK", "APP_MSG_NOT_CONNECTED"}
HealthEvents == {"HealthEventHeartRateUpdate", "HealthEventMovementUpdate"}
\* Readings of health_service_peek_current_value(); 65606 = 65536 + 70.
HRValues == {HealthValueInvalid, 142, 65606}

PaceStrings == {Pace530} \cup {Str(n) : n \in {TEXT_SIZE - 1, TEXT_SIZE, MaxInLen}}
TimeStrings == {Time1234, Str(MaxInLen)}

Absent == [type |-> "ABSENT", value |-> 0]

Field(key, f) == IF f.type = "ABSENT" THEN [k \in {} |-> Absent] ELSE (key :> f)

Dict(p, t, c, h, u) ==
    Field(KEY_PACE, p) @@ Field(KEY_TIME, t) @@ Field(KEY_CMD, c)
        @@ Field(KEY_HR, h) @@ Field(KEY_UNKNOWN, u)

\* Dictionaries with one key: right and wrong types.
PaceMessages ==
    {Dict(p, Absent, Absent, Absent, Absent) :
        p \in {UInt8Tuple(5)} \cup {CStringTuple(s) : s \in PaceStrings}}
TimeMessages ==
    {Dict(Absent, t, Absent, Absent, Absent) :
        t \in {UInt16Tuple(90)} \cup {CStringTuple(s) : s \in TimeStrings}}
CmdMessages ==
    {Dict(Absent, Absent, c, Absent, Absent) :
        c \in {UInt8Tuple(CMD_START), UInt8Tuple(CMD_STOP), UInt8Tuple(99),
               CStringTuple(<<"1">>), CStringTuple(<<"2">>),
               UInt16Tuple(CMD_START)}}
OtherMessages ==
    {Dict(Absent, Absent, Absent, UInt16Tuple(150), Absent),
     Dict(Absent, Absent, Absent, Absent, UInt8Tuple(CMD_STOP))}
\* Dictionaries with several keys.
MixedMessages ==
    {Dict(CStringTuple(Pace530), CStringTuple(Time1234), UInt8Tuple(CMD_STOP),
          Absent, Absent),
     Dict(UInt8Tuple(5), CStringTuple(Time1234), UInt8Tuple(CMD_START),
          Absent, Absent),
     Dict(CStringTuple(Pace530), Absent, CStringTuple(<<"2">>), Absent, Absent),
     Dict(CStringTuple(Pace530), UInt16Tuple(90), UInt8Tuple(99), Absent, Absent),
     Dict(CStringTuple(Pace530), CStringTuple(Time1234), UInt8Tuple(CMD_START),
          UInt16Tuple(150), UInt8Tuple(CMD_STOP))}

Messages ==
    PaceMessages \cup TimeMessages \cup CmdMessages \cup OtherMessages
        \cup MixedMessages

\* The inputs a handler reads: an outcome is drawn only where the handler
\* can come to ask for it.
UBChoices == IF s_canvas_layer = "dangling" THEN UBOutcomes ELSE {"benign"}
PeriodChoices(iterator) ==
    IF /\ KEY_CMD \in DOMAIN iterator
       /\ iterator[KEY_CMD].type = "TUPLE_UINT8"
       /\ iterator[KEY_CMD].value \in {CMD_START, CMD_STOP}
    THEN BOOLEAN ELSE {TRUE}
SendChoices(wr) == IF wr = "DICT_OK" THEN SendResults ELSE {"APP_MSG_OK"}

(***************************************************************************)
(* The specification: main() and the callbacks the event loop delivers.    *)
(***************************************************************************)
Init ==
    /\ g_app_state = [is_active |-> FALSE, current_hr |-> 0,
                      pace_text |-> CharArray(DefaultPace),
                      time_text |-> CharArray(DefaultTime)]
    /\ s_hr_monitoring = FALSE
    /\ s_main_window = "NULL"
    /\ s_canvas_layer = "NULL"
    /\ window_stack = FALSE
    /\ sample_period = 0
    /\ hr_subscribed = FALSE
    /\ am_open = FALSE
    /\ am_callbacks = FALSE
    /\ outbox = <<>>
    /\ open_calls = 0
    /\ pc = "start"
    /\ trace = <<>>
    /\ last_event = [kind |-> "none"]

\* The handler's result becomes the next state.
Commit(w, next_pc, event) ==
    /\ g_app_state' = w.g
    /\ s_hr_monitoring' = w.mon
    /\ s_main_window' = w.win
    /\ s_canvas_layer' = w.canvas
    /\ window_stack' = w.stack
    /\ sample_period' = w.period
    /\ hr_subscribed' = w.sub
    /\ am_open' = w.open
    /\ am_callbacks' = w.cb
    /\ outbox' = w.outbox
    /\ open_calls' = w.opens
    /\ pc' = IF w.crashed THEN "crashed" ELSE next_pc
    /\ trace' = w.trace
    /\ last_event' = event

\* main(): init(), then the event loop starts.
AppInit ==
    /\ pc = "start"
    /\ \E created \in {"window", "NULL"}, subscribed \in BOOLEAN,
          result \in OpenResults :
         Commit(init(World, created, subscribed, result), "loop",
                [kind |-> "init", created |-> created,
                 subscribed |-> subscribed, result |-> result])

\* The health service delivers an event to hr_event_handler.
HealthEvent ==
    /\ pc = "loop"
    /\ hr_subscribed
    /\ \E event \in HealthEvents, hr_value \in HRValues, wr \in WriteResults,
          ub \in UBChoices : \E sr \in SendChoices(wr) :
         Commit(hr_event_handler(World, event, hr_value, wr, sr, ub), "loop",
                [kind |-> "health", event |-> event, hr_value |-> hr_value])

\* AppMessage delivers a dictionary from the peer.
InboxReceived ==
    /\ pc = "loop"
    /\ am_open
    /\ am_callbacks
    /\ \E iterator \in Messages, ub \in UBChoices :
       \E ok \in PeriodChoices(iterator) :
         Commit(inbox_received_callback(World, iterator, ok, ub), "loop",
                [kind |-> "inbox_received", iterator |-> iterator])

\* AppMessage reports a dictionary it had to drop.
InboxDropped ==
    /\ pc = "loop"
    /\ am_open
    /\ am_callbacks
    /\ Commit(inbox_dropped_callback(World), "loop", [kind |-> "inbox_dropped"])

\* The transport acknowledges the pending outbound message.
OutboxSent ==
    /\ pc = "loop"
    /\ outbox # <<>>
    /\ LET w == [World EXCEPT !.outbox = Tail(@)]
       IN  Commit(IF am_callbacks THEN outbox_sent_callback(w) ELSE w, "loop",
                  [kind |-> "outbox_sent", hr_bpm |-> Head(outbox)])

\* The transport gives up on the pending outbound message.
OutboxFailed ==
    /\ pc = "loop"
    /\ outbox # <<>>
    /\ LET w == [World EXCEPT !.outbox = Tail(@)]
       IN  Commit(IF am_callbacks THEN outbox_failed_callback(w) ELSE w, "loop",
                  [kind |-> "outbox_failed", hr_bpm |-> Head(outbox)])

\* app_event_loop() returns, after the Back button popped the window
\* (popped) or because the system closes the app; main() runs deinit().
AppExit ==
    /\ pc = "loop"
    /\ \E popped \in BOOLEAN, ok \in BOOLEAN, ub \in UBOutcomes :
         LET w == IF popped /\ window_stack
                  THEN [World EXCEPT !.stack = FALSE, !.canvas = "dangling"]
                  ELSE World
         IN  Commit(deinit(w, ok, ub), "exited",
                    [kind |-> "exit", popped |-> popped])

Next ==
    \/ AppInit
    \/ HealthEvent
    \/ InboxReceived
    \/ InboxDropped
    \/ OutboxSent
    \/ OutboxFailed
    \/ AppExit

Spec == Init /\ [][Next]_vars

(***************************************************************************)
(* The message channel used as a component: a caller of appmsg.h tears the *)
(* channel down while the event loop keeps running.                        *)
(***************************************************************************)
ChannelTeardown ==
    /\ pc = "loop"
    /\ am_callbacks
    /\ Commit(appmsg_deinit(World), "loop", [kind |-> "appmsg_deinit"])

NextAPI ==
    \/ Next
    \/ ChannelTeardown

SpecAPI == Init /\ [][NextAPI]_vars

(***************************************************************************)
(* Reading the trace of the last handler.                                  *)
(***************************************************************************)
Idx == 1..Len(trace)

\* The calls at which appmsg_handle_command took the CMD_START, the
\* CMD_STOP, or any branch.
StartIdx == {i \in Idx : trace[i].msg = "Starting workout session"}
StopIdx == {i \in Idx : trace[i].msg = "Stopping workout session"}
CommandIdx == {i \in Idx : trace[i].msg = "Received command: %d"}

\* The calls made by function fn.
ByFn(fn) == {i \in Idx : trace[i].fn = fn}
\* The calls of platform operation op.
ByOp(op) == {i \in Idx : trace[i].op = op}
\* The reports at a level.
Logs(level) == {i \in Idx : trace[i].op = "APP_LOG" /\ trace[i].level = level}

\* The command of the dictionary delivered last (0 when it carries no
\* unsigned 8-bit CMD).
DeliveredCmd ==
    IF /\ last_event.kind = "inbox_received"
       /\ KEY_CMD \in DOMAIN last_event.iterator
       /\ last_event.iterator[KEY_CMD].type = "TUPLE_UINT8"
    THEN last_event.iterator[KEY_CMD].value
    ELSE 0

\* The tuple of a key in the dictionary delivered last.
Delivered(key) ==
    IF last_event.kind = "inbox_received"
    THEN dict_find(last_event.iterator, key)
    ELSE NoTuple

(***************************************************************************)
(* C1                                                                      *)
(***************************************************************************)
\* C1 (as claimed): with the main window created, after CMD_START has been
\* dispatched is_active is true, hr_start_monitoring has been called and the
\* monitor is Sampling when the sample period was configured; and after a
\* CMD_STOP dispatched in a session that a CMD_START made Active (is_active
\* is set by nothing else), current_hr is 0, is_active is false and the
\* monitor is Stopped.
C1_CommandSemantics ==
    s_main_window = "window" =>
        /\ StartIdx # {} =>
              /\ g_app_state.is_active
              /\ ByFn("hr_start_monitoring") # {}
              /\ \A i \in ByOp("health_service_set_heart_rate_sample_period") :
                    trace[i].msg = "true" => s_hr_monitoring
        /\ \A i \in StopIdx :
              trace[i].g.is_active =>
                  /\ g_app_state.current_hr = 0
                  /\ ~g_app_state.is_active
                  /\ ~s_hr_monitoring

(***************************************************************************)
(* C2                                                                      *)
(***************************************************************************)
\* C2: when CMD_STOP is handled with is_active set and the monitor Sampling,
\* the sample period is reset first, then the layer is marked dirty with
\* current_hr already 0 and is_active still true, then the window is removed
\* and only then is_active is false; at no call of the handler is is_active
\* false with the monitor still Sampling.
C2_StopOrder ==
    \A s \in StopIdx :
        (trace[s].g.is_active /\ trace[s].mon) =>
            /\ \E i, j, k \in Idx :
                  /\ s < i /\ i < j /\ j < k
                  /\ trace[i].fn = "hr_stop_monitoring"
                  /\ trace[i].op = "health_service_set_heart_rate_sample_period"
                  /\ trace[i].n = 0
                  /\ trace[i].mon
                  /\ trace[j].fn = "ui_update_hr"
                  /\ trace[j].op = "layer_mark_dirty"
                  /\ trace[j].g.current_hr = 0
                  /\ trace[j].g.is_active
                  /\ ~trace[j].mon
                  /\ trace[k].fn = "ui_hide_window"
                  /\ trace[k].op = "window_stack_remove"
                  /\ trace[k].g.is_active
                  /\ trace[k].g.current_hr = 0
            /\ \A i \in Idx : ~(~trace[i].g.is_active /\ trace[i].mon)
            /\ ~g_app_state.is_active
            /\ ~s_hr_monitoring
            /\ g_app_state.current_hr = 0

\* A CMD_STOP was handled in a session that was Active and Sampling with a
\* heart rate on display.
C2_Witness ==
    \E s \in StopIdx :
        /\ trace[s].g.is_active
        /\ trace[s].mon
        /\ trace[s].g.current_hr = 142
        /\ pc = "loop"

(***************************************************************************)
(* C3                                                                      *)
(***************************************************************************)
\* C3: a command other than CMD_START and CMD_STOP leaves g_app_state and
\* s_hr_monitoring as they were when appmsg_handle_command was entered; the
\* handler makes one more call only, a WARNING report: no outbox call and
\* no window or layer call.
C3_UnknownCommand ==
    \A c \in CommandIdx :
        DeliveredCmd \notin {CMD_START, CMD_STOP} =>
            /\ g_app_state = trace[c].g
            /\ s_hr_monitoring = trace[c].mon
            /\ outbox = trace[c].outbox
            /\ Len(trace) = c + 1
            /\ trace[c + 1].op = "APP_LOG"
            /\ trace[c + 1].level = "WARNING"
            /\ trace[c + 1].g = trace[c].g
            /\ Cardinality(Logs("WARNING")) = 1

\* Command 99 was dispatched in an Active, Sampling session.
C3_Witness ==
    /\ CommandIdx # {}
    /\ DeliveredCmd = 99
    /\ g_app_state.is_active
    /\ s_hr_monitoring
    /\ g_app_state.current_hr = 142

(***************************************************************************)
(* C4                                                                      *)
(***************************************************************************)
\* C4: a dictionary whose CMD is not an unsigned 8-bit integer runs no
\* command handler, none of hr.c and no window operation, and leaves
\* is_active, current_hr and s_hr_monitoring as they were on delivery; a
\* PACE (TIME) that is not a string leaves pace_text (time_text) as it was.
C4_TypeSafety ==
    last_event.kind = "inbox_received" =>
        /\ (Delivered(KEY_CMD).type \notin {"NULL", "TUPLE_UINT8"}) =>
              /\ ByFn("appmsg_handle_command") = {}
              /\ ByFn("hr_start_monitoring") = {}
              /\ ByFn("hr_stop_monitoring") = {}
              /\ ByFn("ui_show_window") = {}
              /\ ByFn("ui_hide_window") = {}
              /\ g_app_state.is_active = trace[1].g.is_active
              /\ g_app_state.current_hr = trace[1].g.current_hr
              /\ s_hr_monitoring = trace[1].mon
        /\ (Delivered(KEY_PACE).type \notin {"NULL", "TUPLE_CSTRING"}) =>
              /\ ByFn("appmsg_handle_pace_update") = {}
              /\ g_app_state.pace_text = trace[1].g.pace_text
        /\ (Delivered(KEY_TIME).type \notin {"NULL", "TUPLE_CSTRING"}) =>
              /\ ByFn("appmsg_handle_time_update") = {}
              /\ g_app_state.time_text = trace[1].g.time_text

\* The string "2" was delivered as CMD to an Active, Sampling session.
C4_Witness ==
    /\ Delivered(KEY_CMD).type = "TUPLE_CSTRING"
    /\ Delivered(KEY_CMD).value = <<"2">>
    /\ g_app_state.is_active
    /\ s_hr_monitoring

(***************************************************************************)
(* C5                                                                      *)
(***************************************************************************)
\* The first min(Len(s), TEXT_SIZE - 1) characters of s.
Truncated(s) ==
    SubSeq(s, 1, IF Len(s) < TEXT_SIZE - 1 THEN Len(s) ELSE TEXT_SIZE - 1)

\* C5: after a PACE (TIME) string s has been applied, pace_text (time_text)
\* holds the first min(Len(s), 15) characters of s; and in every state both
\* buffers hold a terminated string of at most 15 characters.
C5_Truncation ==
    /\ Len(CString(g_app_state.pace_text)) <= TEXT_SIZE - 1
    /\ Len(CString(g_app_state.time_text)) <= TEXT_SIZE - 1
    /\ g_app_state.pace_text[TEXT_SIZE] = NUL
    /\ g_app_state.time_text[TEXT_SIZE] = NUL
    /\ ByFn("appmsg_handle_pace_update") # {} =>
          CString(g_app_state.pace_text) = Truncated(Delivered(KEY_PACE).value)
    /\ ByFn("appmsg_handle_time_update") # {} =>
          CString(g_app_state.time_text) = Truncated(Delivered(KEY_TIME).value)

\* A PACE and a TIME string longer than the buffers have been stored.
C5_Witness ==
    /\ Delivered(KEY_TIME).type = "TUPLE_CSTRING"
    /\ Len(Delivered(KEY_TIME).value) = MaxInLen
    /\ ByFn("appmsg_handle_time_update") # {}
    /\ CString(g_app_state.pace_text) = Str(TEXT_SIZE - 1)

(***************************************************************************)
(* C6                                                                      *)
(***************************************************************************)
\* The state right after the store that follows call i of the trace: the
\* one the next call is made in, or the final one.
AfterCall(i) ==
    IF i + 1 <= Len(trace)
    THEN [g |-> trace[i + 1].g, mon |-> trace[i + 1].mon]
    ELSE [g |-> g_app_state, mon |-> s_hr_monitoring]

\* C6: a PACE (TIME) string is applied whatever is_active and the monitor
\* are; the update of one string leaves the other string, is_active,
\* current_hr and s_hr_monitoring as they were when the update began, and no
\* delivery of a dictionary makes an outbox call.
C6_PaceTimeFrame ==
    last_event.kind = "inbox_received" =>
        /\ Delivered(KEY_PACE).type = "TUPLE_CSTRING" =>
              \E i \in ByFn("appmsg_handle_pace_update") :
                  /\ AfterCall(i).g =
                        [trace[i].g EXCEPT !.pace_text =
                            CharArray(Truncated(Delivered(KEY_PACE).value))]
                  /\ AfterCall(i).mon = trace[i].mon
        /\ (Delivered(KEY_TIME).type = "TUPLE_CSTRING" /\ pc # "crashed") =>
              ByFn("appmsg_handle_time_update") # {}
        /\ \A i \in ByFn("appmsg_handle_time_update") :
              /\ AfterCall(i).g =
                    [trace[i].g EXCEPT !.time_text =
                        CharArray(Truncated(Delivered(KEY_TIME).value))]
              /\ AfterCall(i).mon = trace[i].mon
        /\ CommandIdx = {} =>
              /\ g_app_state.is_active = trace[1].g.is_active
              /\ g_app_state.current_hr = trace[1].g.current_hr
              /\ s_hr_monitoring = trace[1].mon
        /\ ByFn("appmsg_send_hr") = {}
        /\ outbox = trace[1].outbox

\* A PACE string was applied in an Active, Sampling session showing a heart
\* rate, and changed pace_text.
C6_Witness ==
    /\ Delivered(KEY_PACE).type = "TUPLE_CSTRING"
    /\ CommandIdx = {}
    /\ g_app_state.is_active
    /\ s_hr_monitoring
    /\ g_app_state.current_hr = 142
    /\ g_app_state.pace_text # trace[1].g.pace_text

\* A TIME string was applied in an Idle session with the monitor Stopped.
C6_WitnessIdle ==
    /\ ByFn("appmsg_handle_time_update") # {}
    /\ CommandIdx = {}
    /\ ~g_app_state.is_active
    /\ ~s_hr_monitoring
    /\ g_app_state.time_text # trace[1].g.time_text

(***************************************************************************)
(* C7                                                                      *)
(***************************************************************************)
\* C7: the transport never holds more than one uncompleted message; an
\* appmsg_send_hr made while one is pending gets APP_MSG_BUSY, reports it,
\* writes and sends nothing, and leaves the pending message in place, which
\* completes later with the value it was sent with.
C7_SingleSlot ==
    /\ Len(outbox) <= 1
    /\ \A i \in ByOp("app_message_outbox_begin") :
          trace[i].outbox # <<>> =>
              /\ trace[i].msg = "APP_MSG_BUSY"
              /\ ByOp("dict_write_uint16") = {}
              /\ ByOp("app_message_outbox_send") = {}
              /\ i + 1 <= Len(trace)
              /\ trace[i + 1].op = "APP_LOG"
              /\ trace[i + 1].level = "ERROR"
              /\ trace[i + 1].msg = "Failed to begin outbox"
              /\ outbox = trace[i].outbox
    /\ \A i \in ByOp("app_message_outbox_send") :
          /\ trace[i].outbox = <<>>
          /\ trace[i].msg = "APP_MSG_OK" => outbox = <<trace[i].n>>
    /\ last_event.kind \in {"outbox_sent", "outbox_failed"} =>
          /\ outbox = <<>>
          /\ trace # <<>> => trace[1].outbox = <<>>

\* A sample of 70 was refused with APP_MSG_BUSY while the send of 142 was
\* pending, and 142 is still pending.
C7_Witness ==
    /\ last_event.kind = "health"
    /\ last_event.hr_value = 65606
    /\ g_app_state.current_hr = 70
    /\ outbox = <<142>>
    /\ \E i \in ByOp("app_message_outbox_begin") : trace[i].msg = "APP_MSG_BUSY"

\* The pending 142 completed after a sample of 70 had been refused.
C7_WitnessCompleted ==
    /\ last_event.kind = "outbox_sent"
    /\ last_event.hr_bpm = 142
    /\ g_app_state.current_hr = 70

(***************************************************************************)
(* C8                                                                      *)
(***************************************************************************)
\* The channel has been torn down: appmsg_deinit ran after appmsg_init.
TornDown == open_calls > 0 /\ ~am_callbacks

\* C8 (as claimed): once the channel is torn down every send fails at
\* app_message_outbox_begin with a closed channel, nothing is written or
\* sent, the transport holds no message of a later send, and no AppMessage
\* callback runs.
C8_Teardown ==
    TornDown =>
        /\ \A i \in ByOp("app_message_outbox_begin") :
              trace[i].msg = "APP_MSG_CLOSED"
        /\ ByOp("dict_write_uint16") = {}
        /\ ByOp("app_message_outbox_send") = {}
        /\ ByFn("inbox_received_callback") = {}
        /\ ByFn("inbox_dropped_callback") = {}
        /\ ByFn("outbox_sent_callback") = {}
        /\ ByFn("outbox_failed_callback") = {}

(***************************************************************************)
(* C9                                                                      *)
(***************************************************************************)
\* C9: app_message_open is called once; when it failed, no later call opens
\* the channel, no HR value is written or sent, the transport holds nothing,
\* and no dictionary is dispatched.
C9_OpenFailed ==
    /\ open_calls <= 1
    /\ pc = "start" => open_calls = 0
    /\ (pc # "start" /\ ~am_open) =>
          /\ open_calls = 1
          /\ outbox = <<>>
          /\ ByOp("dict_write_uint16") = {}
          /\ ByOp("app_message_outbox_send") = {}
          /\ \A i \in ByOp("app_message_outbox_begin") :
                trace[i].msg # "APP_MSG_OK"
          /\ ByFn("inbox_received_callback") = {}
          /\ ByFn("appmsg_handle_command") = {}
          /\ ~g_app_state.is_active
          /\ ~s_hr_monitoring
    /\ (pc # "start" /\ last_event.kind = "init") =>
          am_open = (last_event.result = "APP_MSG_OK")

\* With the channel closed by a failed open, a sample of 142 was stored and
\* its send refused.
C9_Witness ==
    /\ ~am_open
    /\ last_event.kind = "health"
    /\ g_app_state.current_hr = 142
    /\ ByOp("app_message_outbox_begin") # {}

(***************************************************************************)
(* C10                                                                     *)
(***************************************************************************)
\* C10: hr_start_monitoring called while s_hr_monitoring is set makes one
\* call, a WARNING report, and leaves g_app_state, the flag and the sample
\* period alone; hr_stop_monitoring called while s_hr_monitoring is clear
\* does the same: no call of ui_update_hr, no sample period request, the
\* next call of the handler finds the state the WARNING was made in.
C10_Idempotence ==
    /\ \A s \in StartIdx :
          trace[s].mon =>
              LET h == ByFn("hr_start_monitoring")
              IN  /\ Cardinality(h) = 1
                  /\ \A i \in h :
                        /\ trace[i].op = "APP_LOG"
                        /\ trace[i].level = "WARNING"
                        /\ i = Len(trace)
                        /\ g_app_state = trace[i].g
                        /\ s_hr_monitoring = trace[i].mon
                        /\ s_hr_monitoring
                  /\ ByOp("health_service_set_heart_rate_sample_period") = {}
                  /\ ByFn("appmsg_send_hr") = {}
                  /\ ByFn("ui_update_hr") = {}
                  /\ sample_period = 1
    /\ \A s \in StopIdx :
          ~trace[s].mon =>
              LET h == ByFn("hr_stop_monitoring")
              IN  /\ Cardinality(h) = 1
                  /\ \A i \in h :
                        /\ i = s + 1
                        /\ trace[i].op = "APP_LOG"
                        /\ trace[i].level = "WARNING"
                        /\ trace[i].g = trace[s].g
                        /\ AfterCall(i).g = trace[i].g
                        /\ AfterCall(i).mon = trace[i].mon
                        /\ g_app_state.current_hr = trace[i].g.current_hr
                        /\ g_app_state.pace_text = trace[i].g.pace_text
                        /\ g_app_state.time_text = trace[i].g.time_text
                        /\ ~s_hr_monitoring
                  /\ ByOp("health_service_set_heart_rate_sample_period") = {}
                  /\ ByFn("appmsg_send_hr") = {}
                  /\ ByFn("ui_update_hr") = {}
                  /\ Cardinality(Logs("WARNING")) = 1

\* CMD_START was handled while already Sampling with a heart rate shown.
C10_Witness ==
    \E s \in StartIdx :
        /\ trace[s].mon
        /\ g_app_state.current_hr = 142

\* CMD_STOP was handled while already Stopped with a heart rate shown.
C10_WitnessStop ==
    \E s \in StopIdx :
        /\ ~trace[s].mon
        /\ g_app_state.current_hr = 142

(***************************************************************************)
(* C11                                                                     *)
(***************************************************************************)
\* C11 (as claimed): between events, is_active false implies current_hr 0,
\* and hr_event_handler stores a sample only while s_hr_monitoring is set.
C11_SessionInvariant ==
    /\ (pc = "loop" /\ ~g_app_state.is_active) => g_app_state.current_hr = 0
    /\ \A i \in ByFn("hr_event_handler") :
          trace[i].msg = "HR: %d BPM" => trace[i].mon

(***************************************************************************)
(* C12                                                                     *)
(***************************************************************************)
\* The session state main.c starts with.
InitialAppState ==
    [is_active |-> FALSE, current_hr |-> 0,
     pace_text |-> CharArray(DefaultPace), time_text |-> CharArray(DefaultTime)]

\* C12: the scenario, step by step, in the run where window_create and the
\* sample period request succeed.  The process starts with the defaults;
\* CMD=1 gives is_active; a sample of 142 in the Active, Sampling session
\* with an empty outbox gives current_hr 142 and one send attempt, of 142;
\* PACE "5:30/km" alone changes pace_text only; CMD=2 in the Active,
\* Sampling session gives current_hr 0 and is_active false.
C12_EndToEnd ==
    /\ pc = "start" => g_app_state = InitialAppState
    /\ (StartIdx # {} /\ s_main_window = "window") => g_app_state.is_active
    /\ ( /\ last_event.kind = "health"
         /\ last_event.event = "HealthEventHeartRateUpdate"
         /\ last_event.hr_value = 142
         /\ g_app_state.is_active
         /\ s_hr_monitoring ) =>
          /\ g_app_state.current_hr = 142
          /\ Cardinality(ByOp("app_message_outbox_begin")) = 1
          /\ Cardinality(ByOp("dict_write_uint16")) <= 1
          /\ Cardinality(ByOp("app_message_outbox_send")) <= 1
          /\ \A i \in ByOp("app_message_outbox_begin") :
                trace[i].outbox = <<>> =>
                    /\ trace[i].msg = "APP_MSG_OK"
                    /\ \E j \in ByOp("dict_write_uint16") :
                          /\ j = i + 1
                          /\ trace[j].n = 142
                          /\ trace[j].msg = "DICT_OK" =>
                                /\ j + 1 <= Len(trace)
                                /\ trace[j + 1].op = "app_message_outbox_send"
                                /\ trace[j + 1].n = 142
          /\ \A i \in ByOp("app_message_outbox_send") :
                trace[i].msg = "APP_MSG_OK" => outbox = <<142>>
    /\ ( /\ last_event.kind = "inbox_received"
         /\ DOMAIN last_event.iterator = {KEY_PACE}
         /\ Delivered(KEY_PACE).type = "TUPLE_CSTRING"
         /\ Delivered(KEY_PACE).value = Pace530 ) =>
          /\ g_app_state = [trace[1].g EXCEPT !.pace_text = CharArray(Pace530)]
          /\ CString(g_app_state.pace_text) = Pace530
          /\ s_hr_monitoring = trace[1].mon
          /\ outbox = trace[1].outbox
    /\ \A s \in StopIdx :
          (trace[s].g.is_active /\ trace[s].mon) =>
              /\ g_app_state.current_hr = 0
              /\ ~g_app_state.is_active

\* The scenario has run to its end: CMD=2 was delivered to the Active,
\* Sampling session showing 142 and "5:30/km", with 142 handed to the
\* transport, and left current_hr 0 and is_active false.
C12_Witness ==
    /\ \E s \in StopIdx :
          /\ trace[s].g.is_active
          /\ trace[s].mon
          /\ trace[s].g.current_hr = 142
          /\ trace[s].g.pace_text = CharArray(Pace530)
          /\ trace[s].g.time_text = CharArray(DefaultTime)
          /\ trace[s].outbox = <<142>>
    /\ g_app_state.current_hr = 0
    /\ ~g_app_state.is_active
    /\ CString(g_app_state.pace_text) = Pace530

(***************************************************************************)
(* C13                                                                     *)
(***************************************************************************)
\* The step is a heart-rate event with a valid reading.
SampleStep ==
    /\ last_event'.kind = "health"
    /\ last_event'.event = "HealthEventHeartRateUpdate"
    /\ last_event'.hr_value # HealthValueInvalid

\* The reports of a failed send in the trace of the step.
SendFailures ==
    {i \in 1..Len(trace') :
        /\ trace'[i].fn = "appmsg_send_hr"
        /\ trace'[i].op = "APP_LOG"
        /\ trace'[i].level = "ERROR"}

C13_Step ==
    /\ last_event'.kind \in {"outbox_sent", "outbox_failed", "inbox_dropped"} =>
          /\ g_app_state' = g_app_state
          /\ s_hr_monitoring' = s_hr_monitoring
          /\ sample_period' = sample_period
          /\ Len(trace') = 1
          /\ trace'[1].op = "APP_LOG"
          /\ outbox' = IF last_event'.kind = "inbox_dropped"
                       THEN outbox ELSE Tail(outbox)
    /\ SampleStep =>
          /\ g_app_state' =
                [g_app_state EXCEPT !.current_hr = last_event'.hr_value % 65536]
          /\ s_hr_monitoring' = s_hr_monitoring
          /\ sample_period' = sample_period
          /\ Cardinality({i \in 1..Len(trace') :
                            trace'[i].op = "app_message_outbox_begin"}) <= 1
          /\ SendFailures # {} =>
                /\ outbox' = outbox
                /\ Cardinality(SendFailures) = 1
          /\ outbox # <<>> => SendFailures # {} \/ pc' = "crashed"
    /\ (last_event'.kind = "inbox_received" /\ outbox # <<>>) =>
          /\ outbox' = outbox
          /\ trace'[1].fn = "inbox_received_callback"
          /\ \A i \in 1..Len(trace') :
                trace'[i].fn = "appmsg_handle_pace_update" =>
                    g_app_state'.pace_text
                        = CharArray(Truncated(last_event'.iterator[KEY_PACE].value))

\* C13: a completion or inbox-dropped callback changes neither g_app_state
\* nor the monitor; a heart-rate event whose send fails (at begin, at the
\* write or at the send) still stores the sample, changes nothing else,
\* hands nothing to the transport and begins the outbox once; and with a
\* message pending that never completed, dictionaries are still dispatched
\* and samples still stored.
C13_FireAndForget == [][C13_Step]_vars

\* The write of a sample failed in an Active, Sampling session and the
\* sample is on display.
C13_Witness ==
    /\ \E i \in Idx : trace[i].msg = "Failed to write HR to dictionary"
    /\ g_app_state.current_hr = 142
    /\ g_app_state.is_active
    /\ s_hr_monitoring

\* A dictionary was dispatched while a send was pending.
C13_WitnessPending ==
    /\ last_event.kind = "inbox_received"
    /\ outbox = <<142>>
    /\ CString(g_app_state.pace_text) = Pace530
    /\ trace[1].g.pace_text = CharArray(DefaultPace)

(***************************************************************************)
(* C14                                                                     *)
(***************************************************************************)
\* The requests for a sample period made by function fn.
PeriodRequests(fn) ==
    {i \in ByFn(fn) : trace[i].op = "health_service_set_heart_rate_sample_period"}

\* The part of C14 about the monitor: a CMD_START taken with the monitor
\* Stopped requests the 1 s period once, whatever was tried before; the
\* monitor is Sampling exactly when the request succeeded, and a failed
\* request is reported once as an error.
SensorStart ==
    \A s \in StartIdx :
        ~trace[s].mon =>
            /\ Cardinality(PeriodRequests("hr_start_monitoring")) = 1
            /\ \A i \in PeriodRequests("hr_start_monitoring") :
                  /\ i > s
                  /\ trace[i].n = 1
                  /\ s_hr_monitoring <=> trace[i].msg = "true"
                  /\ trace[i].msg = "true" =>
                        trace[Len(trace)].msg = "HR monitoring started (1s interval)"
                  /\ trace[i].msg = "false" =>
                        /\ trace[Len(trace)].msg = "Failed to set HR sample period"
                        /\ trace[Len(trace)].level = "ERROR"
                        /\ Cardinality(Logs("ERROR")) = 1

C14_WitnessAgain ==
    /\ \E s \in StartIdx :
          /\ trace[s].g.is_active
          /\ ~trace[s].mon
          /\ \E i \in PeriodRequests("hr_start_monitoring") : trace[i].msg = "true"
    /\ s_hr_monitoring

(***************************************************************************)
(* C15                                                                     *)
(***************************************************************************)
\* C15: when hr_stop_monitoring runs with the monitor Sampling (from
\* CMD_STOP or from hr_deinit) it requests period 0 once; whatever the
\* request returns the monitor is Stopped and current_hr is 0 afterwards;
\* where a canvas layer exists ui_update_hr marks it dirty with current_hr
\* already 0; and the handler makes no call of appmsg_send_hr.
C15_SensorStop ==
    \A i \in PeriodRequests("hr_stop_monitoring") :
        /\ Cardinality(PeriodRequests("hr_stop_monitoring")) = 1
        /\ trace[i].mon
        /\ trace[i].n = 0
        /\ trace[i].msg \in {"true", "false"}
        /\ ~s_hr_monitoring
        /\ g_app_state.current_hr = 0
        /\ \A j \in Idx : j > i => ~trace[j].mon
        /\ s_canvas_layer # "NULL" =>
              /\ i < Len(trace)
              /\ trace[i + 1].fn = "ui_update_hr"
              /\ trace[i + 1].op \in
                    {"layer_mark_dirty", "layer_mark_dirty_destroyed", "fault"}
              /\ trace[i + 1].g.current_hr = 0
        /\ ByFn("appmsg_send_hr") = {}
        /\ ByOp("app_message_outbox_begin") = {}
        /\ outbox = trace[i].outbox

\* CMD_STOP with the monitor Sampling and 142 stored, whose request for
\* period 0 failed: the monitor is Stopped, current_hr is 0 and the layer
\* was marked dirty.
C15_Witness ==
    /\ last_event.kind = "inbox_received"
    /\ \E i \in PeriodRequests("hr_stop_monitoring") :
          /\ trace[i].msg = "false"
          /\ trace[i].g.current_hr = 142
          /\ trace[i + 1].op = "layer_mark_dirty"
    /\ ~s_hr_monitoring
    /\ g_app_state.current_hr = 0

\* The same from hr_deinit at exit.
C15_WitnessExit ==
    /\ last_event.kind = "exit"
    /\ \E i \in PeriodRequests("hr_stop_monitoring") :
          /\ trace[i].g.current_hr = 142
          /\ trace[i + 1].fn = "ui_update_hr"
    /\ g_app_state.current_hr = 0

(***************************************************************************)
(* C16                                                                     *)
(***************************************************************************)
\* The calls of the step's handler of platform operation op.
StepOps(op) == {i \in 1..Len(trace') : trace'[i].op = op}

C16_Step ==
    (/\ s_hr_monitoring
     /\ last_event'.kind = "health"
     /\ last_event'.event = "HealthEventHeartRateUpdate") =>
        IF last_event'.hr_value # HealthValueInvalid
        THEN /\ g_app_state' =
                   [g_app_state EXCEPT !.current_hr = last_event'.hr_value % 65536]
             /\ g_app_state'.current_hr \in 0..65535
             /\ Cardinality(StepOps("app_message_outbox_begin")) = 1
             /\ \A i \in StepOps("app_message_outbox_begin") :
                   /\ trace'[i].g.current_hr = g_app_state'.current_hr
                   /\ trace'[i].msg = "APP_MSG_OK" <=> StepOps("dict_write_uint16") # {}
             /\ Cardinality(StepOps("dict_write_uint16")) <= 1
             /\ Cardinality(StepOps("app_message_outbox_send")) <= 1
             /\ \A i \in StepOps("dict_write_uint16") \cup StepOps("app_message_outbox_send") :
                   trace'[i].n = g_app_state'.current_hr
             /\ outbox' \in {outbox, Append(outbox, g_app_state'.current_hr)}
        ELSE /\ g_app_state' = g_app_state
             /\ outbox' = outbox
             /\ Len(trace') = 1
             /\ trace'[1].op = "APP_LOG"
             /\ trace'[1].level = "WARNING"
             /\ trace'[1].msg = "Invalid HR reading"

\* C16: with the monitor Sampling, a heart-rate event with a valid reading
\* v stores v modulo 2^16 in current_hr and then begins the outbox exactly
\* once, the write and the send that follow carrying the value stored; an
\* event whose reading is HealthValueInvalid leaves g_app_state as it was,
\* makes no outbox call and logs one warning.
C16_SampleHandling == [][C16_Step]_vars

\* A reading above 2^16 was handled with the monitor Sampling: 70 is stored
\* and 70 was handed to the transport.
C16_Witness ==
    /\ last_event.kind = "health"
    /\ last_event.hr_value = 65606
    /\ s_hr_monitoring
    /\ g_app_state.current_hr = 70
    /\ outbox = <<70>>
    /\ \E i \in ByOp("app_message_outbox_send") : trace[i].n = 70

\* An invalid reading was handled with the monitor Sampling and 142 stored.
C16_WitnessInvalid ==
    /\ last_event.kind = "health"
    /\ last_event.hr_value = HealthValueInvalid
    /\ last_event.event = "HealthEventHeartRateUpdate"
    /\ s_hr_monitoring
    /\ g_app_state.current_hr = 142
    /\ Len(trace) = 1

(***************************************************************************)
(* C17                                                                     *)
(***************************************************************************)
\* The calls at which the handlers of PACE and of TIME were entered.
PaceIdx == {i \in Idx : trace[i].msg = "Pace update: %s"}
TimeIdx == {i \in Idx : trace[i].msg = "Time update: %s"}

\* C17: of one delivered dictionary the PACE handler is entered before the
\* TIME handler and both before the command handler, each at most once; a
\* handler is entered exactly when its key is present with its type (a
\* handler after a fault on the destroyed canvas layer is never entered: the
\* app is gone), whatever the other keys are; its update is in the state the
\* delivery leaves; a dictionary with none of the three keys rightly typed,
\* HR and unknown keys included, makes no call but the first log and leaves
\* the state as it was; and at the call that takes CMD_STOP the strings of
\* the same dictionary are stored already, is_active being as before.
C17_PerKeyDispatch ==
    last_event.kind = "inbox_received" =>
        LET pace == Delivered(KEY_PACE)
            time == Delivered(KEY_TIME)
            cmd == Delivered(KEY_CMD)
        IN  /\ \A p \in PaceIdx : \A t \in TimeIdx : p < t
            /\ \A x \in PaceIdx \cup TimeIdx : \A c \in CommandIdx : x < c
            /\ Cardinality(PaceIdx) <= 1
            /\ Cardinality(TimeIdx) <= 1
            /\ Cardinality(CommandIdx) <= 1
            /\ PaceIdx # {} <=> pace.type = "TUPLE_CSTRING"
            /\ TimeIdx # {} => time.type = "TUPLE_CSTRING"
            /\ CommandIdx # {} => cmd.type = "TUPLE_UINT8"
            /\ pc # "crashed" =>
                  /\ time.type = "TUPLE_CSTRING" => TimeIdx # {}
                  /\ cmd.type = "TUPLE_UINT8" => CommandIdx # {}
            /\ PaceIdx # {} =>
                  g_app_state.pace_text = CharArray(Truncated(pace.value))
            /\ PaceIdx = {} => g_app_state.pace_text = trace[1].g.pace_text
            /\ TimeIdx # {} =>
                  g_app_state.time_text = CharArray(Truncated(time.value))
            /\ TimeIdx = {} => g_app_state.time_text = trace[1].g.time_text
            /\ CommandIdx # {} =>
                  /\ StartIdx # {} <=> cmd.value = CMD_START
                  /\ StopIdx # {} <=> cmd.value = CMD_STOP
            /\ (PaceIdx = {} /\ TimeIdx = {} /\ CommandIdx = {}) =>
                  /\ Len(trace) = 1
                  /\ g_app_state = trace[1].g
                  /\ s_hr_monitoring = trace[1].mon
                  /\ outbox = trace[1].outbox
            /\ (KEY_HR \in DOMAIN last_event.iterator /\ StopIdx = {}) =>
                  g_app_state.current_hr = trace[1].g.current_hr
            /\ \A s \in StopIdx :
                  /\ PaceIdx # {} =>
                        trace[s].g.pace_text = CharArray(Truncated(pace.value))
                  /\ TimeIdx # {} =>
                        trace[s].g.time_text = CharArray(Truncated(time.value))
                  /\ trace[s].g.is_active = trace[1].g.is_active
                  /\ trace[s].mon = trace[1].mon

\* PACE, TIME and CMD_STOP in one dictionary, delivered in an Active,
\* Sampling session: the strings were stored with the session still Active,
\* and the session is Idle afterwards.
C17_Witness ==
    /\ last_event.kind = "inbox_received"
    /\ \E s \in StopIdx :
          /\ trace[s].g.is_active
          /\ trace[s].mon
          /\ CString(trace[s].g.pace_text) = Pace530
          /\ CString(trace[s].g.time_text) = Time1234
    /\ CString(trace[1].g.pace_text) = DefaultPace
    /\ CString(trace[1].g.time_text) = DefaultTime
    /\ ~g_app_state.is_active
    /\ CString(g_app_state.pace_text) = Pace530

\* A wrong-typed PACE with a TIME and CMD_START: the other two are applied.
C17_WitnessWrongType ==
    /\ last_event.kind = "inbox_received"
    /\ Delivered(KEY_PACE).type = "TUPLE_UINT8"
    /\ CString(g_app_state.time_text) = Time1234
    /\ CString(trace[1].g.time_text) = DefaultTime
    /\ ~trace[1].g.is_active
    /\ g_app_state.is_active
    /\ s_hr_monitoring

\* A dictionary with an HR key only, delivered with 142 stored.
C17_WitnessIgnored ==
    /\ last_event.kind = "inbox_received"
    /\ DOMAIN last_event.iterator = {KEY_HR}
    /\ g_app_state.current_hr = 142

(***************************************************************************)
(* C18                                                                     *)
(***************************************************************************)
\* C18: with the main window created, in every state between events, and
\* at every call a handler makes, a Sampling monitor has is_active true;
\* the 1 s period is requested only under CMD_START with is_active set
\* already, and the monitor is Stopped at every call made after is_active
\* was cleared.
C18_SamplingImpliesActive ==
    s_main_window = "window" =>
        /\ s_hr_monitoring => g_app_state.is_active
        /\ \A i \in Idx : trace[i].mon => trace[i].g.is_active
        /\ \A i \in PeriodRequests("hr_start_monitoring") :
              /\ \E s \in StartIdx : s < i
              /\ trace[i].g.is_active

\* Between events, an Active session with the monitor Sampling, started by
\* the CMD_START handled last from an Idle session with the monitor Stopped.
C18_Witness ==
    /\ pc = "loop"
    /\ s_main_window = "window"
    /\ s_hr_monitoring
    /\ g_app_state.is_active
    /\ \E s \in StartIdx : ~trace[s].g.is_active /\ ~trace[s].mon

\* Without the window the monitor is Sampling in an Idle session.
C18_WitnessNoWindow ==
    /\ s_main_window = "NULL"
    /\ s_hr_monitoring
    /\ ~g_app_state.is_active

(***************************************************************************)
(* C19                                                                     *)
(***************************************************************************)
\* C19: a CMD_START taken with is_active set and the monitor Sampling, and
\* a CMD_STOP taken with is_active clear and the monitor Stopped, leave
\* is_active, current_hr, pace_text, time_text and the monitor as they were
\* when the command was taken, request no sample period, make no outbox
\* call, and log one warning and no error.
C19_RepeatedCommands ==
    /\ \A s \in StartIdx :
          (trace[s].g.is_active /\ trace[s].mon) =>
              /\ g_app_state = trace[s].g
              /\ s_hr_monitoring
              /\ Cardinality(Logs("WARNING")) = 1
              /\ \A i \in Logs("WARNING") :
                    trace[i].msg = "HR monitoring already active"
    /\ \A s \in StopIdx :
          (~trace[s].g.is_active /\ ~trace[s].mon) =>
              /\ g_app_state = trace[s].g
              /\ ~s_hr_monitoring
              /\ Cardinality(Logs("WARNING")) = 1
              /\ \A i \in Logs("WARNING") :
                    trace[i].msg = "HR monitoring not active"
              /\ ByFn("ui_update_hr") = {}
    /\ \A s \in StartIdx \cup StopIdx :
          (trace[s].g.is_active <=> trace[s].mon) /\
          (trace[s].g.is_active <=> s \in StartIdx) =>
              /\ ByOp("health_service_set_heart_rate_sample_period") = {}
              /\ ByFn("appmsg_send_hr") = {}
              /\ outbox = trace[s].outbox
              /\ Logs("ERROR") = {}

\* CMD_START in an Active, Sampling session showing 142, 5:30/km and
\* 00:12:34.
C19_Witness ==
    /\ \E s \in StartIdx :
          /\ trace[s].g.is_active
          /\ trace[s].mon
          /\ trace[s].g.current_hr = 142
          /\ CString(trace[s].g.pace_text) = Pace530
          /\ CString(trace[s].g.time_text) = Time1234
    /\ g_app_state.current_hr = 142

\* CMD_STOP in an Idle session with the monitor Stopped and 142 stored.
C19_WitnessStop ==
    /\ \E s \in StopIdx :
          /\ ~trace[s].g.is_active
          /\ ~trace[s].mon
          /\ trace[s].g.current_hr = 142
          /\ CString(trace[s].g.pace_text) = Pace530
    /\ g_app_state.current_hr = 142

(***************************************************************************)
(* C20                                                                     *)
(***************************************************************************)
\* C20: app_message_open has been called exactly once in every state after
\* init, and by init alone; before init no handler has run, so every
\* outbox call is made after the open; and deinit, from whatever state,
\* deregisters the callbacks first, then stops and unsubscribes the sensor,
\* then destroys the window, leaves the monitor Stopped, current_hr 0 if the
\* monitor was Sampling and g_app_state as it was if not, and makes no
\* outbox call.
C20_Lifecycle ==
    /\ pc = "start" =>
          /\ open_calls = 0
          /\ trace = <<>>
          /\ last_event.kind = "none"
          /\ outbox = <<>>
    /\ pc # "start" => open_calls = 1
    /\ ByOp("app_message_open") # {} <=> last_event.kind = "init"
    /\ Cardinality(ByOp("app_message_open")) <= 1
    /\ last_event.kind = "init" =>
          /\ ByOp("app_message_outbox_begin") = {}
          /\ outbox = <<>>
    /\ ByOp("app_message_outbox_begin") # {} =>
          /\ open_calls = 1
          /\ last_event.kind = "health"
    /\ last_event.kind = "exit" =>
          /\ trace[1].op = "app_message_deregister_callbacks"
          /\ \A i \in ByFn("appmsg_deinit") :
                \A j \in Idx \ ByFn("appmsg_deinit") : i < j
          /\ \A i \in ByFn("hr_deinit") \cup ByFn("hr_stop_monitoring")
                        \cup ByFn("ui_update_hr") :
                \A j \in ByFn("ui_deinit") : i < j
          /\ pc = "exited" =>
                /\ ByOp("health_service_events_unsubscribe") # {}
                /\ s_main_window = "window" <=> ByOp("window_destroy") # {}
          /\ ~s_hr_monitoring
          /\ trace[1].mon =>
                /\ g_app_state = [trace[1].g EXCEPT !.current_hr = 0]
                /\ PeriodRequests("hr_stop_monitoring") # {}
          /\ ~trace[1].mon => g_app_state = trace[1].g
          /\ ByFn("appmsg_send_hr") = {}
          /\ ByOp("app_message_outbox_begin") = {}
          /\ outbox = trace[1].outbox

\* deinit has run to its end in an Active, Sampling session that showed
\* 142 with its send still pending.
C20_Witness ==
    /\ pc = "exited"
    /\ last_event.kind = "exit"
    /\ trace[1].mon
    /\ trace[1].g.is_active
    /\ trace[1].g.current_hr = 142
    /\ trace[1].outbox = <<142>>
    /\ g_app_state.current_hr = 0
    /\ ~s_hr_monitoring
    /\ open_calls = 1

\* A sample was sent in the event loop after the one open of init.
C20_WitnessSend ==
    /\ pc = "loop"
    /\ open_calls = 1
    /\ \E i \in ByOp("app_message_outbox_begin") : trace[i].msg = "APP_MSG_OK"
    /\ outbox = <<142>>

====
